---------------------------- MODULE Spec2Model ----------------------------
(***************************************************************************)
(* Model of the taxi allocation engine of src/sensitivity.py:              *)
(*   solve_allocation, run_sensitivity, marginal_value_per_hour.           *)
(* The script src/optimize.py builds the same MILP once, for FLEET_SIZE    *)
(* = 3528 and r = 2.0, and differs in one place: it looks demand up with   *)
(* dem.get((a, h), 0.0) where solve_allocation indexes d[(a, h)].  It has  *)
(* no action of its own here.                                              *)
(*                                                                         *)
(* Numbers: demand, r, unmet and served are floats in the code; here they  *)
(* are the integer-valued floats (1.0, 2.0, ...), so r * x, min and sums   *)
(* are exact.  The assignment variables are integers (int_vars = True,     *)
(* the default and what every caller in the repository passes) and no      *)
(* time limit is set (time_limit = None, the default), so the external     *)
(* solver runs to the end: on a feasible model it returns one of the       *)
(* optimal solutions, any of them.                                         *)
(***************************************************************************)
EXTENDS Integers, Sequences, FiniteSets

VARIABLES demand_df,   \* the demand table handed to the call
          call,        \* the top-level call and its arguments
          pc,          \* "idle", "sens_loop", "marg_loop", "returned", "raised"
          i, j,        \* loop positions (outer, inner)
          rows,        \* rows / out: the records appended so far
          base_unmet,  \* marginal_value_per_hour: baseline objective
          solves,      \* log of the calls made to the external solver
          result,      \* the value returned by the top-level call
          err          \* the exception that left the top-level call

vars == <<demand_df, call, pc, i, j, rows, base_unmet, solves, result, err>>

---------------------------------------------------------------------------
(* Bounds of the model *)

MaxDemand == 2      \* demand of a row of a small table: 1 or MaxDemand
MaxF == 2           \* fleet sizes and capacity overrides: -1..MaxF
MaxR == 2           \* throughput rates: 0..MaxR
MaxDelta == 1       \* increments of marginal_value_per_hour: 1..MaxDelta

Zones == {1, 2}
HoursOfDay == {0, 1}
Cells == Zones \X HoursOfDay

\* Sequences over S of length at most 2 (the grids of a sweep).
Grids(S) == {<<>>} \cup {<<a>> : a \in S} \cup {<<a, b>> : a \in S, b \in S}

---------------------------------------------------------------------------
(* Helpers *)

Max2(a, b) == IF a >= b THEN a ELSE b
Min2(a, b) == IF a <= b THEN a ELSE b

RECURSIVE SumOver(_, _)
\* Sum of f[k] for k in S.
SumOver(f, S) == IF S = {} THEN 0
                 ELSE LET k == CHOOSE e \in S : TRUE
                      IN f[k] + SumOver(f, S \ {k})

RECURSIVE SortedList(_)
\* sorted(set): the ascending sequence of the integers of S.
SortedList(S) == IF S = {} THEN <<>>
                 ELSE LET m == CHOOSE e \in S : \A o \in S : e <= o
                      IN <<m>> \o SortedList(S \ {m})

---------------------------------------------------------------------------
(* Inputs *)

\* The 2-zone / 2-hour table of the scenarios.
ScenarioTable == [c \in Cells |-> IF c = <<1, 0>> THEN 10
                                  ELSE IF c = <<1, 1>> THEN 5
                                  ELSE IF c = <<2, 0>> THEN 8 ELSE 12]

\* Small tables: any set of (zone, hour) rows, each with demand 1 or MaxDemand.
\* The empty table and tables that lack a (zone, hour) combination are among them.
SmallTables == UNION {[S -> {1, MaxDemand}] : S \in SUBSET Cells}

DemandTables == SmallTables \cup {ScenarioTable}

\* Fleet sizes, capacity overrides and rates tried with a table.  -1 and 0 are
\* the invalid values (negative capacity, r <= 0).
FleetSizes(df) == IF df = ScenarioTable THEN {3, 5, 10} ELSE {-1} \cup 0..MaxF
Rates(df) == IF df = ScenarioTable THEN {1, 2} ELSE 0..MaxR
\* The sweeps are tried with the valid rates, r > 0.
PositiveRates(df) == {r \in Rates(df) : r > 0}
Deltas == 1..MaxDelta

\* hour_caps: None, or a dict that overrides at most one hour.
NoCaps == [given |-> FALSE, caps |-> [h \in {} |-> 0]]
HourCapsChoices(df) ==
    {NoCaps} \cup {[given |-> TRUE, caps |-> [h \in S |-> c]] :
                      S \in {T \in SUBSET HoursOfDay : Cardinality(T) <= 1},
                      c \in FleetSizes(df)}

---------------------------------------------------------------------------
(* solve_allocation: the model it builds *)

\* A = sorted(unique zones), H = sorted(unique hours); as sets.
Areas(df) == {c[1] : c \in DOMAIN df}
Hours(df) == {c[2] : c \in DOMAIN df}

\* Variant: the per-hour overrides are dropped.
EffectiveCaps_IgnoreOverrides(hc, F, H) == [h \in H |-> F]

\* hour_caps = {h: F for h in H}, or the given dict with missing hours filled with F.
EffectiveCaps(hc, F, H) ==
    IF ~hc.given THEN [h \in H |-> F]
    ELSE [h \in H |-> IF h \in DOMAIN hc.caps THEN hc.caps[h] ELSE F]

\* d[(a, h)]: a plain dict lookup, which raises KeyError on a pair without a row.
HasKey(df, c) == c \in DOMAIN df
LookupFails(df, A, H) == \E c \in A \X H : ~HasKey(df, c)

\* Variant: the rate is left out of the coverage constraint (x + u >= d).
CoverSlack_NoRate(dv, r, xv) == Max2(0, dv - xv)

\* Coverage constraint r * x + u >= d with u >= 0: the least u it allows.
CoverSlack(dv, r, xv) == Max2(0, dv - r * xv)

\* Fleet cap constraint of one hour: x >= 0 integer, sum over zones <= cap.
HourAssignments(A, cap) ==
    {x \in [A -> 0..cap] : SumOver(x, A) <= cap}

HourUnmet(df, r, A, h, x) ==
    SumOver([a \in A |-> CoverSlack(df[<<a, h>>], r, x[a])], A)

---------------------------------------------------------------------------
(* The external MILP solver (PuLP / CBC), by its contract *)

\* The objective (sum of u) and the constraints couple no two hours, so an
\* allocation is optimal exactly when each hour's part is optimal for that hour.
HourOptimal(df, r, A, h, cap) ==
    LET cand == HourAssignments(A, cap)
        vals == {HourUnmet(df, r, A, h, x) : x \in cand}
        best == CHOOSE v \in vals : \A w \in vals : v <= w
    IN {x \in cand : HourUnmet(df, r, A, h, x) = best}

OptimalSolutions(df, r, A, H, caps) ==
    LET opt == [h \in H |-> HourOptimal(df, r, A, h, caps[h])]
        parts == {y \in [H -> UNION {opt[h] : h \in H}] : \A h \in H : y[h] \in opt[h]}
    IN {[c \in A \X H |-> y[c[2]][c[1]]] : y \in parts}

Feasible(H, caps) == \A h \in H : caps[h] >= 0

\* prob.solve(solver): status and variable values.  A feasible model is bounded
\* (u >= 0), so it ends Optimal with an optimal point; the model of an empty
\* table has no variable and no constraint and ends Optimal too.  An infeasible
\* model (a negative cap) ends Infeasible, and the variables hold what the solver
\* left: nothing (None), or the point it stopped at (here x = 0 with the slack of
\* the coverage rows).  The model is never unbounded.
SolverOutcomes(df, r, A, H, caps) ==
    IF Feasible(H, caps)
    THEN {[status |-> "Optimal", valued |-> TRUE, x |-> xs,
           u |-> [c \in A \X H |-> CoverSlack(df[c], r, xs[c])]] :
             xs \in OptimalSolutions(df, r, A, H, caps)}
    ELSE {[status |-> "Infeasible", valued |-> v, x |-> [c \in A \X H |-> 0],
           u |-> [c \in A \X H |-> CoverSlack(df[c], r, 0)]] : v \in BOOLEAN}

---------------------------------------------------------------------------
(* solve_allocation: reading the solution back *)

\* x.value() if x.value() is not None else 0.0
ValueOrZero(valued, v) == IF valued THEN v ELSE 0

\* One row per (a, h): demand, x_taxis, served = min(dv, r * xv), unmet.
AllocationRow(dv, r, valued, xv, uv) ==
    [demand |-> dv,
     x_taxis |-> ValueOrZero(valued, xv),
     served |-> Min2(dv, r * ValueOrZero(valued, xv)),
     unmet |-> ValueOrZero(valued, uv)]

AllocationTable(df, r, A, H, o) ==
    [c \in A \X H |-> AllocationRow(df[c], r, o.valued, o.x[c], o.u[c])]

TotalOf(tab, col) == SumOver([c \in DOMAIN tab |-> tab[c][col]], DOMAIN tab)

\* Variant: the served column is summed instead.
TotalUnmet_AsServed(tab) == TotalOf(tab, "served")

\* total_unmet = sol_df["unmet"].sum(): what the summary reports as objective_unmet.
TotalUnmet(tab) == TotalOf(tab, "unmet")

\* The summary dict (runtime_sec, served_pct and int_vars are left out: a wall
\* clock, a quotient of two columns kept here, and a constant).
Summary(status, tab, F, r) ==
    [status |-> status,
     objective_unmet |-> TotalUnmet(tab),
     demand_total |-> TotalOf(tab, "demand"),
     served_total |-> TotalOf(tab, "served"),
     F |-> F,
     r |-> r]

NoTable == [c \in {} |-> 0]
NoSummary == [status |-> "none", objective_unmet |-> 0, demand_total |-> 0,
              served_total |-> 0, F |-> 0, r |-> 0]

\* Every way a call solve_allocation(df, F, r, hour_caps = hc) can end: it raises
\* KeyError while it builds the coverage constraints, before the solver is called,
\* or it calls the solver and returns {"allocations", "summary"} whatever the status.
SolveAllocation(df, F, r, hc) ==
    LET A == Areas(df)
        H == Hours(df)
        caps == EffectiveCaps(hc, F, H)
    IN IF LookupFails(df, A, H)
       THEN {[raised |-> TRUE, error |-> "KeyError", solver_called |-> FALSE,
              caps |-> caps, allocations |-> NoTable, summary |-> NoSummary]}
       ELSE {[raised |-> FALSE, error |-> "none", solver_called |-> TRUE,
              caps |-> caps,
              allocations |-> AllocationTable(df, r, A, H, o),
              summary |-> Summary(o.status, AllocationTable(df, r, A, H, o), F, r)] :
                o \in SolverOutcomes(df, r, A, H, caps)}

\* What the log keeps of a call to the solver.
SolveLog(res, F, r) == [F |-> F, r |-> r, caps |-> res.caps]
Logged(res, F, r) == IF res.solver_called THEN <<SolveLog(res, F, r)>> ELSE <<>>

---------------------------------------------------------------------------
(* State machine *)

NoCall == [op |-> "none", F |-> 0, r |-> 0, hour_caps |-> NoCaps,
           F_grid |-> <<>>, r_grid |-> <<>>, delta |-> 0]

Init ==
    /\ demand_df \in DemandTables
    /\ call = NoCall
    /\ pc = "idle"
    /\ i = 0
    /\ j = 0
    /\ rows = <<>>
    /\ base_unmet = 0
    /\ solves = <<>>
    /\ result = <<>>
    /\ err = "none"

\* A direct call solve_allocation(demand_df, F, r, hour_caps = hc).
CallSolveAllocation ==
    /\ pc = "idle"
    /\ \E F \in FleetSizes(demand_df), r \in Rates(demand_df),
          hc \in HourCapsChoices(demand_df) :
         \E res \in SolveAllocation(demand_df, F, r, hc) :
            /\ call' = [NoCall EXCEPT !.op = "solve", !.F = F, !.r = r, !.hour_caps = hc]
            /\ solves' = Logged(res, F, r)
            /\ pc' = IF res.raised THEN "raised" ELSE "returned"
            /\ err' = res.error
            /\ result' = IF res.raised THEN <<>>
                         ELSE [allocations |-> res.allocations, summary |-> res.summary]
    /\ UNCHANGED <<demand_df, i, j, rows, base_unmet>>

---------------------------------------------------------------------------
(* run_sensitivity *)

\* Order of sort_values(["r", "F"]): by r, then by F.
KeyLE(a, b) == a.r < b.r \/ (a.r = b.r /\ a.F <= b.F)

RECURSIVE InsertByKey(_, _)
\* rec placed after every row whose key is not larger (the sort is stable).
InsertByKey(rec, s) ==
    IF s = <<>> THEN <<rec>>
    ELSE IF KeyLE(s[Len(s)], rec) THEN Append(s, rec)
    ELSE Append(InsertByKey(rec, SubSeq(s, 1, Len(s) - 1)), s[Len(s)])

RECURSIVE SortValues(_)
\* pd.DataFrame(rows).sort_values(["r", "F"]).reset_index(drop=True)
SortValues(s) ==
    IF s = <<>> THEN <<>>
    ELSE InsertByKey(s[Len(s)], SortValues(SubSeq(s, 1, Len(s) - 1)))

\* pd.DataFrame([]) has no columns: sort_values on a column name raises KeyError.
SortRaises(s) == s = <<>>

CallRunSensitivity ==
    /\ pc = "idle"
    /\ \E Fg \in Grids(FleetSizes(demand_df)), rg \in Grids(PositiveRates(demand_df)) :
         call' = [NoCall EXCEPT !.op = "sens", !.F_grid = Fg, !.r_grid = rg]
    /\ pc' = "sens_loop"
    /\ i' = 1
    /\ j' = 1
    /\ rows' = <<>>
    /\ UNCHANGED <<demand_df, base_unmet, solves, result, err>>

\* for r in r_grid: for F in F_grid: one solve, one row appended.
LoopDone == i > Len(call.r_grid) \/ Len(call.F_grid) = 0

SensStep ==
    /\ pc = "sens_loop"
    /\ ~LoopDone
    /\ LET r == call.r_grid[i]
           F == call.F_grid[j]
       IN \E res \in SolveAllocation(demand_df, F, r, NoCaps) :
            /\ solves' = solves \o Logged(res, F, r)
            /\ IF res.raised
               THEN /\ pc' = "raised"
                    /\ err' = res.error
                    /\ UNCHANGED <<rows, i, j>>
               ELSE /\ rows' = Append(rows, res.summary)
                    /\ i' = IF j < Len(call.F_grid) THEN i ELSE i + 1
                    /\ j' = IF j < Len(call.F_grid) THEN j + 1 ELSE 1
                    /\ UNCHANGED <<pc, err>>
    /\ UNCHANGED <<demand_df, call, base_unmet, result>>

\* sens_df = pd.DataFrame(rows).sort_values(["r", "F"]).reset_index(drop=True)
SensFinish ==
    /\ pc = "sens_loop"
    /\ LoopDone
    /\ IF SortRaises(rows)
       THEN /\ pc' = "raised"
            /\ err' = "KeyError"
            /\ UNCHANGED result
       ELSE /\ pc' = "returned"
            /\ result' = SortValues(rows)
            /\ UNCHANGED err
    /\ UNCHANGED <<demand_df, call, i, j, rows, base_unmet, solves>>

---------------------------------------------------------------------------
(* marginal_value_per_hour *)

\* Variant: the raised hours accumulate (caps is not rebuilt for each hour).
MargCaps_Cumulative(hours, F, delta, h) ==
    [given |-> TRUE, caps |-> [hh \in hours |-> IF hh <= h THEN F + delta ELSE F]]

\* Variant: the operands are swapped.
UnmetReduction_Reversed(base, after) == after - base

\* du = base_unmet - res_h["summary"]["objective_unmet"]
UnmetReduction(base, after) == base - after

\* caps = {hh: F for hh in hours}; caps[h] = F + delta
MargCaps(hours, F, delta, h) ==
    [given |-> TRUE, caps |-> [hh \in hours |-> IF hh = h THEN F + delta ELSE F]]

RECURSIVE InsertByHour(_, _)
InsertByHour(rec, s) ==
    IF s = <<>> THEN <<rec>>
    ELSE IF s[Len(s)].hour <= rec.hour THEN Append(s, rec)
    ELSE Append(InsertByHour(rec, SubSeq(s, 1, Len(s) - 1)), s[Len(s)])

RECURSIVE SortByHour(_)
\* pd.DataFrame(out).sort_values("hour").reset_index(drop=True)
SortByHour(s) ==
    IF s = <<>> THEN <<>>
    ELSE InsertByHour(s[Len(s)], SortByHour(SubSeq(s, 1, Len(s) - 1)))

\* hours = sorted(demand_df["hour"].unique().tolist())
HourList == SortedList(Hours(demand_df))

\* The baseline solve, with capacity F in every hour.
CallMarginalValue ==
    /\ pc = "idle"
    /\ \E F \in FleetSizes(demand_df), r \in PositiveRates(demand_df), delta \in Deltas :
         \E base \in SolveAllocation(demand_df, F, r, NoCaps) :
            /\ call' = [NoCall EXCEPT !.op = "marg", !.F = F, !.r = r, !.delta = delta]
            /\ solves' = Logged(base, F, r)
            /\ pc' = IF base.raised THEN "raised" ELSE "marg_loop"
            /\ err' = base.error
            /\ base_unmet' = base.summary.objective_unmet
    /\ i' = 1
    /\ rows' = <<>>
    /\ UNCHANGED <<demand_df, j, result>>

\* for h in hours: one solve with hour h raised, one record appended.
MargStep ==
    /\ pc = "marg_loop"
    /\ i <= Len(HourList)
    /\ LET h == HourList[i]
           caps == MargCaps(Hours(demand_df), call.F, call.delta, h)
       IN \E res \in SolveAllocation(demand_df, call.F, call.r, caps) :
            /\ solves' = solves \o Logged(res, call.F, call.r)
            /\ IF res.raised
               THEN /\ pc' = "raised"
                    /\ err' = res.error
                    /\ UNCHANGED <<rows, i>>
               ELSE /\ rows' = Append(rows,
                            [hour |-> h, deltaF_at_hour |-> call.delta,
                             unmet_reduction |->
                                 UnmetReduction(base_unmet, res.summary.objective_unmet)])
                    /\ i' = i + 1
                    /\ UNCHANGED <<pc, err>>
    /\ UNCHANGED <<demand_df, call, j, base_unmet, result>>

\* return pd.DataFrame(out).sort_values("hour").reset_index(drop=True)
MargFinish ==
    /\ pc = "marg_loop"
    /\ i > Len(HourList)
    /\ IF SortRaises(rows)
       THEN /\ pc' = "raised"
            /\ err' = "KeyError"
            /\ UNCHANGED result
       ELSE /\ pc' = "returned"
            /\ result' = SortByHour(rows)
            /\ UNCHANGED err
    /\ UNCHANGED <<demand_df, call, i, j, rows, base_unmet, solves>>

---------------------------------------------------------------------------
(* Specifications *)

Next ==
    \/ CallSolveAllocation
    \/ CallRunSensitivity
    \/ SensStep
    \/ SensFinish
    \/ CallMarginalValue
    \/ MargStep
    \/ MargFinish

Spec == Init /\ [][Next]_vars

\* The three entry points, each on its own.
SolveNext == CallSolveAllocation
SolveSpec == Init /\ [][SolveNext]_vars

SensNext == CallRunSensitivity \/ SensStep \/ SensFinish
SensSpec == Init /\ [][SensNext]_vars

MargNext == CallMarginalValue \/ MargStep \/ MargFinish
MargSpec == Init /\ [][MargNext]_vars

---------------------------------------------------------------------------
(* Properties of solve_allocation *)

Finished == pc \in {"returned", "raised"}
SolveReturned == call.op = "solve" /\ pc = "returned"

\* The table has a row for every (zone, hour) combination of its zones and hours.
FullTable == \A c \in Areas(demand_df) \X Hours(demand_df) : c \in DOMAIN demand_df

\* capacity(h): the override given for h, the fleet size otherwise.
Capacity(h) ==
    IF call.hour_caps.given /\ h \in DOMAIN call.hour_caps.caps
    THEN call.hour_caps.caps[h] ELSE call.F

ValidInput ==
    /\ demand_df # NoTable
    /\ call.r > 0
    /\ call.F >= 0
    /\ \A h \in DOMAIN call.hour_caps.caps : call.hour_caps.caps[h] >= 0

AssignedInHour(h) ==
    SumOver([a \in Areas(demand_df) |-> result.allocations[<<a, h>>].x_taxis],
            Areas(demand_df))

\* C1: for every valid input and every hour h, the vehicles assigned over all
\* zones in hour h are at most capacity(h): the override hour_caps[h] when one is
\* given for h, the fleet size F otherwise.
C1_FleetCapRespected ==
    (SolveReturned /\ ValidInput) =>
        \A h \in Hours(demand_df) : AssignedInHour(h) <= Capacity(h)

\* C1 witness: a valid solve in which an override below F is used up exactly.
C1_Witness ==
    /\ SolveReturned
    /\ ValidInput
    /\ \E h \in Hours(demand_df) :
          /\ call.hour_caps.given
          /\ h \in DOMAIN call.hour_caps.caps
          /\ Capacity(h) < call.F
          /\ Capacity(h) > 0
          /\ AssignedInHour(h) = Capacity(h)

InvalidInput ==
    \/ demand_df = NoTable
    \/ call.r <= 0
    \/ call.F < 0
    \/ \E h \in DOMAIN call.hour_caps.caps : call.hour_caps.caps[h] < 0

\* C2: when the demand table is empty, r <= 0 or a capacity value (F or an
\* override) is negative, the call fails before any call to the solver (any
\* exception is taken as the validation error).
C2_InvalidInputRejected ==
    (call.op = "solve" /\ Finished /\ InvalidInput) =>
        (pc = "raised" /\ solves = <<>>)

HourDemand(h) ==
    SumOver([a \in Areas(demand_df) |-> demand_df[<<a, h>>]], Areas(demand_df))

\* ceil(n / d) for n >= 0, d > 0
CeilDiv(n, d) == (n + d - 1) \div d

\* Vehicles needed to cover hour h when each zone gets whole vehicles.
HourNeed(h) ==
    SumOver([a \in Areas(demand_df) |-> CeilDiv(demand_df[<<a, h>>], call.r)],
            Areas(demand_df))

ZeroUnmet ==
    /\ \A c \in DOMAIN result.allocations : result.allocations[c].unmet = 0
    /\ result.summary.objective_unmet = 0

UniformOptimalSolve ==
    /\ SolveReturned
    /\ ~call.hour_caps.given
    /\ call.r > 0
    /\ result.summary.status = "Optimal"

\* C9 as stated: with uniform capacity F, whenever the total demand of every hour
\* is at most r * F, the optimal solve reports zero unmet in every row and
\* objective 0.
C9_TotalDemandWithinCapacity ==
    (UniformOptimalSolve
       /\ \A h \in Hours(demand_df) : HourDemand(h) <= call.r * call.F)
    => ZeroUnmet

\* C9 amended: with uniform capacity F, whenever in every hour the sum over the
\* zones of ceil(demand / r) is at most F, the optimal solve reports zero unmet in
\* every row and objective 0 (so for the scenario table with r = 2, F = 10).
C9_WholeVehiclesWithinCapacity ==
    (UniformOptimalSolve
       /\ \A h \in Hours(demand_df) : HourNeed(h) <= call.F)
    => ZeroUnmet

\* C9 witness: the scenario, demand {(1,0):10, (1,1):5, (2,0):8, (2,1):12},
\* r = 2, F = 10, solved with zero unmet.
C9_Witness ==
    /\ UniformOptimalSolve
    /\ demand_df = ScenarioTable
    /\ call.r = 2
    /\ call.F = 10
    /\ \A h \in Hours(demand_df) : HourNeed(h) <= call.F
    /\ ZeroUnmet

\* C10: for every non-empty table the solve completes without a lookup error, and
\* every (zone, hour) pair of the table's zones and hours carries its demand in
\* the result, 0 when the table has no row for it.
C10_MissingPairDefaultsToZero ==
    (call.op = "solve" /\ Finished /\ demand_df # NoTable) =>
        /\ pc = "returned"
        /\ \A c \in Areas(demand_df) \X Hours(demand_df) :
              /\ c \in DOMAIN result.allocations
              /\ result.allocations[c].demand =
                    (IF c \in DOMAIN demand_df THEN demand_df[c] ELSE 0)

---------------------------------------------------------------------------
(* Properties of run_sensitivity *)

NumPairs == Len(call.r_grid) * Len(call.F_grid)

\* The k-th pair of the product, r in the outer loop and F in the inner loop.
PairAt(k) ==
    [r |-> call.r_grid[((k - 1) \div Len(call.F_grid)) + 1],
     F |-> call.F_grid[((k - 1) % Len(call.F_grid)) + 1]]

\* solves is one solve per pair of the first n pairs, in loop order, each with
\* capacity F in every hour.
SolvedInLoopOrder(n) ==
    /\ Len(solves) = n
    /\ \A k \in 1..n :
          /\ solves[k].r = PairAt(k).r
          /\ solves[k].F = PairAt(k).F
          /\ \A h \in Hours(demand_df) : solves[k].caps[h] = PairAt(k).F

AscendingByRThenF(s) ==
    \A k \in 1..(Len(s) - 1) :
        \/ s[k].r < s[k + 1].r
        \/ (s[k].r = s[k + 1].r /\ s[k].F <= s[k + 1].F)

\* As many records with the key (r, F) as the product has pairs with it.
OneRecordPerPair(s) ==
    \A q \in 1..NumPairs :
        Cardinality({k \in 1..Len(s) : s[k].r = PairAt(q).r /\ s[k].F = PairAt(q).F})
          = Cardinality({k \in 1..NumPairs : PairAt(k) = PairAt(q)})

SweepComplete ==
    /\ pc = "returned"
    /\ SolvedInLoopOrder(NumPairs)
    /\ Len(result) = NumPairs
    /\ OneRecordPerPair(result)
    /\ AscendingByRThenF(result)

\* C3: total unmet demand of an optimal solve is non-increasing in F with r
\* fixed, and non-increasing in r > 0 with F fixed (the rows of one sweep are
\* solves of one demand table).
C3_UnmetMonotone ==
    call.op = "sens" =>
        \A p \in 1..Len(rows), q \in 1..Len(rows) :
            (rows[p].status = "Optimal" /\ rows[q].status = "Optimal") =>
                /\ (rows[p].r = rows[q].r /\ rows[p].F <= rows[q].F)
                      => rows[q].objective_unmet <= rows[p].objective_unmet
                /\ (rows[p].F = rows[q].F /\ 0 < rows[p].r /\ rows[p].r <= rows[q].r)
                      => rows[q].objective_unmet <= rows[p].objective_unmet

\* C3 witness: a sweep in which a larger F, and a larger r, each lower the unmet
\* demand of an optimal solve.
C3_Witness ==
    /\ call.op = "sens"
    /\ pc = "returned"
    /\ \E p \in 1..Len(rows), q \in 1..Len(rows) :
          /\ rows[p].status = "Optimal" /\ rows[q].status = "Optimal"
          /\ rows[p].r = rows[q].r /\ rows[p].F < rows[q].F
          /\ rows[q].objective_unmet < rows[p].objective_unmet
    /\ \E p \in 1..Len(rows), q \in 1..Len(rows) :
          /\ rows[p].status = "Optimal" /\ rows[q].status = "Optimal"
          /\ rows[p].F = rows[q].F /\ 0 < rows[p].r /\ rows[p].r < rows[q].r
          /\ rows[q].objective_unmet < rows[p].objective_unmet

SweepOfValidTable == call.op = "sens" /\ Finished /\ demand_df # NoTable /\ FullTable

\* C4: run_sensitivity makes exactly one solve per pair of r_grid x F_grid, r in
\* the outer loop and F in the inner loop, and returns |r_grid| * |F_grid|
\* records, one per pair, ascending by (r, F), whatever the order of the grids.
C4_OneSolveAndRecordPerPair ==
    SweepOfValidTable => SweepComplete

\* The same for sweeps whose grids are both non-empty.
C4_NonEmptyGrids ==
    (SweepOfValidTable /\ NumPairs > 0) => SweepComplete

\* A finished sweep over two unsorted grids of two values each.
C4_UnsortedSweepReturned ==
    /\ SweepOfValidTable
    /\ pc = "returned"
    /\ Len(call.r_grid) = 2 /\ call.r_grid[1] > call.r_grid[2]
    /\ Len(call.F_grid) = 2 /\ call.F_grid[1] > call.F_grid[2]

\* C5: with an empty grid (F_grid, r_grid or both) run_sensitivity makes no solve
\* and returns an empty sequence; it does not end in an error.
C5_EmptyGridEmptyResult ==
    (call.op = "sens" /\ Finished /\ NumPairs = 0) =>
        (pc = "returned" /\ result = <<>> /\ solves = <<>>)

InfeasibleOrUnbounded(status) == status \in {"Infeasible", "Unbounded"}

\* C8: when the solver reports infeasible or unbounded, solve_allocation returns
\* with that status and assigned = 0 and unmet = 0 in every row of the table (or
\* no row), and a sweep that contains such a pair still solves every pair and
\* returns a record for every pair.
C8_InfeasibleIsZeroFilled ==
    /\ (SolveReturned /\ InfeasibleOrUnbounded(result.summary.status)) =>
          \A c \in DOMAIN result.allocations :
              /\ result.allocations[c].x_taxis = 0
              /\ result.allocations[c].unmet = 0
    /\ (SweepOfValidTable /\ NumPairs > 0
          /\ \E k \in 1..Len(rows) : InfeasibleOrUnbounded(rows[k].status)) =>
          (pc = "returned" /\ Len(solves) = NumPairs /\ Len(result) = NumPairs)

\* The sweep half of C8 on its own.
C8_SweepGoesOn ==
    (SweepOfValidTable /\ NumPairs > 0
       /\ \E k \in 1..Len(rows) : InfeasibleOrUnbounded(rows[k].status)) =>
       (pc = "returned" /\ Len(solves) = NumPairs /\ Len(result) = NumPairs)

---------------------------------------------------------------------------
(* Properties of marginal_value_per_hour *)

InMarginal == call.op = "marg" /\ pc \in {"marg_loop", "returned"}

\* C6: for F >= 0 (a capacity), r > 0 and delta > 0 every row of the output has
\* unmet_reduction >= 0.
C6_ReductionNonNegative ==
    (call.op = "marg" /\ call.F >= 0 /\ call.r > 0 /\ call.delta > 0) =>
        /\ \A k \in 1..Len(rows) : rows[k].unmet_reduction >= 0
        /\ pc = "returned" => \A k \in 1..Len(result) : result[k].unmet_reduction >= 0

\* C6 witness: a returned table with a strictly positive reduction.
C6_Witness ==
    /\ call.op = "marg"
    /\ pc = "returned"
    /\ call.F >= 0 /\ call.r > 0 /\ call.delta > 0
    /\ \E k \in 1..Len(result) : result[k].unmet_reduction > 0
    /\ \E k \in 1..Len(result) : result[k].unmet_reduction = 0

\* C7: the baseline (F in every hour) is solved first, then exactly one solve per
\* hour, whose schedule is F + delta at that hour and F at every other hour, and
\* the output has one row per hour in ascending hour order.
C7_IndependentPerturbations ==
    InMarginal =>
        /\ Len(solves) = i
        /\ \A h \in Hours(demand_df) : solves[1].caps[h] = call.F
        /\ \A k \in 2..Len(solves) : \A h \in Hours(demand_df) :
              solves[k].caps[h] =
                 (IF h = HourList[k - 1] THEN call.F + call.delta ELSE call.F)
        /\ pc = "returned" =>
              /\ Len(solves) = 1 + Cardinality(Hours(demand_df))
              /\ Len(result) = Cardinality(Hours(demand_df))
              /\ \A k \in 1..Len(result) : result[k].hour = HourList[k]
              /\ \A k \in 1..(Len(result) - 1) : result[k].hour < result[k + 1].hour

\* C7 witness: a returned table over two hours.
C7_Witness ==
    /\ call.op = "marg"
    /\ pc = "returned"
    /\ Len(result) = 2
    /\ Len(solves) = 3
    /\ solves[3].caps[HourList[1]] = call.F
    /\ solves[3].caps[HourList[2]] = call.F + call.delta

====
